---- MODULE Spec2Model ----
(***************************************************************************)
(* A model of the early_returns crate (src/src/lib.rs): the six            *)
(* macro_rules! definitions some_or_return!, some_or_break!,               *)
(* some_or_continue!, ok_or_return!, ok_or_break!, ok_or_continue!, and    *)
(* the call sites that use them (the methods of test::Tester).             *)
(*                                                                         *)
(* A macro is modelled as the list of its rules, in source order.  A rule  *)
(* is its matcher (the fragment kinds of its parameters) and the abstract  *)
(* syntax of its transcriber  if let PAT(f) = SCRUTINEE { THEN } else      *)
(* { ELSE }.  A call site is expanded by the first rule whose matcher      *)
(* accepts its arguments, and the expansion is then executed one           *)
(* statement at a time inside the loops of the calling method.             *)
(*                                                                         *)
(* self.value is an i32; the payloads and list lengths used here keep it   *)
(* far below 2^31, so the overflow check of += never fires.                *)
(***************************************************************************)
EXTENDS Integers, Sequences, FiniteSets, TLC

VARIABLES
    value,      \* Tester.value
    pc,         \* position of the running method
    method,     \* the method being run (which macro, which loop shape)
    values,     \* the method's argument, as a list of Option/Result values
    innerN,     \* the inner loop is  for _i in 0..innerN
    i,          \* index of the outer loop's current element (1-based)
    j,          \* number of inner iterations begun in this outer iteration
    f,          \* the payload bound by  let value = <macro>!(..)
    result,     \* what the method returned
    value0,     \* ghost: self.value when the method was entered
    evals,      \* ghost: evaluations of the $from expression in this call
    invs,       \* ghost: macro invocations executed in this call
    dflts,      \* ghost: evaluations of a default expression in this call
    log,        \* ghost: the events of this call, in order
    ncalls,     \* ghost: methods called on this Tester
    getterCalls,\* ghost: calls of value_getter on this Tester
    getterInvs  \* ghost: invocations whose $from is value_getter()

vars == <<value, pc, method, values, innerN, i, j, f, result, value0, evals,
          invs, dflts, log, ncalls, getterCalls, getterInvs>>

----------------------------------------------------------------------------
(* Bounds of the model *)

MaxLen == 2

MaxPayload == 2

MaxInner == 2

MaxCalls == 3

ErrPayloads == {"e1", "e2"}

----------------------------------------------------------------------------
(* Values: Option<T> and Result<T, E>, owned or behind references *)

\* oref: the sum itself is behind a reference (&Option<i32>);
\* pref: the payload is a reference (Option<&i32>).
Some(n) == [tag |-> "Some", n |-> n, e |-> "-", oref |-> FALSE, pref |-> FALSE]

None == [tag |-> "None", n |-> 0, e |-> "-", oref |-> FALSE, pref |-> FALSE]

Ok(n) == [tag |-> "Ok", n |-> n, e |-> "-", oref |-> FALSE, pref |-> FALSE]

Err(e) == [tag |-> "Err", n |-> 0, e |-> e, oref |-> FALSE, pref |-> FALSE]

Payloads == 1..MaxPayload

Options == {None} \cup {Some(n) : n \in Payloads}

Results == {Err(e) : e \in ErrPayloads} \cup {Ok(n) : n \in Payloads}

\* The parameter type of a method decides the reference shape of its argument.
Shaped(v, ptype) ==
    CASE ptype = "owned"    -> v
      [] ptype = "with_ref" -> [v EXCEPT !.pref = TRUE]
      [] ptype = "ref_to"   -> [v EXCEPT !.oref = TRUE]

\* Option::as_ref: Option<T> -> Option<&T>
as_ref(v) == [v EXCEPT !.oref = FALSE, !.pref = TRUE]

Unbound == [ref |-> FALSE, n |-> 0, set |-> FALSE]

\* Variant: the Ok pattern also takes one particular error for a success.
Matches_reads_err(pat, v) ==
    v.tag = pat \/ (pat = "Ok" /\ v.tag = "Err" /\ v.e = "e1")

\* Variant: the pattern does not see through a reference to the sum.
Matches_by_value(pat, v) == v.tag = pat /\ ~v.oref

\* if let PAT(f) = v: does the pattern match (through a reference, by the
\* default binding modes), and what f is bound to.
Matches(pat, v) == v.tag = pat

Bind(v) == [ref |-> (v.oref \/ v.pref), n |-> v.n, set |-> TRUE]

\* i32 += i32 and i32 += &i32 both add the referent.
AddAssign(lhs, rhs) == lhs + rhs.n

----------------------------------------------------------------------------
(* The macros: each is the list of its rules, in source order *)

Rule(params, pat, miss) ==
    [params |-> params, pat |-> pat, scrut |-> <<"$from">>,
     hit |-> <<"f">>, miss |-> miss]

\* Variant: a second rule taking a default result,  return $default;
some_or_return_with_default ==
    << Rule(<<"expr">>, "Some", <<"return">>),
       Rule(<<"expr", "expr">>, "Some", <<"return", "$default">>) >>

\* Variant:  if $from.is_some() { $from.unwrap() } else { return; }
some_or_return_twice ==
    << [params |-> <<"expr">>, pat |-> "Some", scrut |-> <<"$from">>,
        hit |-> <<"$from">>, miss |-> <<"return">>] >>

some_or_return == << Rule(<<"expr">>, "Some", <<"return">>) >>

\* Variant: rule 1 transcribes  continue;
some_or_break_continues ==
    << Rule(<<"expr">>, "Some", <<"continue">>),
       Rule(<<"expr", "lifetime">>, "Some", <<"break", "$lt">>) >>

\* Variant: rule 1 transcribes  return;
some_or_break_returns ==
    << Rule(<<"expr">>, "Some", <<"return">>),
       Rule(<<"expr", "lifetime">>, "Some", <<"break", "$lt">>) >>

some_or_break ==
    << Rule(<<"expr">>, "Some", <<"break">>),
       Rule(<<"expr", "lifetime">>, "Some", <<"break", "$lt">>) >>

\* Variant: both rules transcribe break.
some_or_continue_breaks ==
    << Rule(<<"expr">>, "Some", <<"break">>),
       Rule(<<"expr", "lifetime">>, "Some", <<"break", "$lt">>) >>

\* Variant: rule 2 drops its label,  continue;
some_or_continue_drops_label ==
    << Rule(<<"expr">>, "Some", <<"continue">>),
       Rule(<<"expr", "lifetime">>, "Some", <<"continue">>) >>

some_or_continue ==
    << Rule(<<"expr">>, "Some", <<"continue">>),
       Rule(<<"expr", "lifetime">>, "Some", <<"continue", "$lt">>) >>

ok_or_return == << Rule(<<"expr">>, "Ok", <<"return">>) >>

\* Variant: rule 2 drops its label,  break;
ok_or_break_drops_label ==
    << Rule(<<"expr">>, "Ok", <<"break">>),
       Rule(<<"expr", "lifetime">>, "Ok", <<"break">>) >>

ok_or_break ==
    << Rule(<<"expr">>, "Ok", <<"break">>),
       Rule(<<"expr", "lifetime">>, "Ok", <<"break", "$lt">>) >>

\* Variant: rule 1 transcribes  break;
ok_or_continue_breaks ==
    << Rule(<<"expr">>, "Ok", <<"break">>),
       Rule(<<"expr", "lifetime">>, "Ok", <<"continue", "$lt">>) >>

ok_or_continue ==
    << Rule(<<"expr">>, "Ok", <<"continue">>),
       Rule(<<"expr", "lifetime">>, "Ok", <<"continue", "$lt">>) >>

MacroOf(kind, divert) ==
    CASE kind = "Option" /\ divert = "return"   -> some_or_return
      [] kind = "Option" /\ divert = "break"    -> some_or_break
      [] kind = "Option" /\ divert = "continue" -> some_or_continue
      [] kind = "Result" /\ divert = "return"   -> ok_or_return
      [] kind = "Result" /\ divert = "break"    -> ok_or_break
      [] kind = "Result" /\ divert = "continue" -> ok_or_continue

NoRule == Rule(<<>>, "-", <<"no rules expected this token">>)

\* macro_rules! tries the rules in order and takes the first whose matcher
\* accepts the arguments; with none, the call site does not compile.
Expand(rules, args) ==
    LET ok == {k \in 1..Len(rules) : rules[k].params = args}
    IN  IF ok = {} THEN NoRule
        ELSE rules[CHOOSE k \in ok : \A h \in ok : k <= h]

\* How often a token sequence of the transcriber mentions tok.
Uses(toks, tok) == Cardinality({k \in 1..Len(toks) : toks[k] = tok})

----------------------------------------------------------------------------
(* The call sites *)

\* nest: "none" (no loop), "single" (one loop), "labeled" (an inner loop in
\* an outer loop labeled 'l, the label passed to the macro), "nested" (the
\* same two loops, the macro called in its one-argument form).
\* from: the $from expression: a variable, values.as_ref(), value_getter().
Site(kind, divert, nest, from, ptype, args) ==
    [kind |-> kind, divert |-> divert, nest |-> nest, from |-> from,
     ptype |-> ptype, args |-> args]

increment_with_optional ==
    Site("Option", "return", "none", "var", "owned", <<"expr">>)

increment_with_result ==
    Site("Result", "return", "none", "var", "owned", <<"expr">>)

increment_with_optional_with_ref ==
    Site("Option", "return", "none", "var", "with_ref", <<"expr">>)

increment_with_result_with_ref ==
    Site("Result", "return", "none", "var", "with_ref", <<"expr">>)

increment_with_ref_to_optional ==
    Site("Option", "return", "none", "var", "ref_to", <<"expr">>)

increment_with_ref_to_result ==
    Site("Result", "return", "none", "var", "ref_to", <<"expr">>)

increment_with_optional_with_break ==
    Site("Option", "break", "single", "var", "owned", <<"expr">>)

increment_with_optional_with_break_with_lifetime ==
    Site("Option", "break", "labeled", "var", "owned", <<"expr", "lifetime">>)

increment_with_optional_with_continue ==
    Site("Option", "continue", "single", "var", "owned", <<"expr">>)

increment_with_optional_with_continue_with_lifetime ==
    Site("Option", "continue", "labeled", "var", "owned", <<"expr", "lifetime">>)

increment_with_result_with_break ==
    Site("Result", "break", "single", "var", "owned", <<"expr">>)

increment_with_result_with_break_with_lifetime ==
    Site("Result", "break", "labeled", "var", "owned", <<"expr", "lifetime">>)

increment_with_result_with_continue ==
    Site("Result", "continue", "single", "var", "owned", <<"expr">>)

increment_with_result_with_continue_with_lifetime ==
    Site("Result", "continue", "labeled", "var", "owned", <<"expr", "lifetime">>)

increment_with_optional_by_ref ==
    Site("Option", "return", "none", "as_ref", "owned", <<"expr">>)

increment_with_optional_from_fn_result ==
    Site("Option", "return", "none", "call", "owned", <<"expr">>)

TesterMethods ==
    { increment_with_optional, increment_with_result,
      increment_with_optional_with_ref, increment_with_result_with_ref,
      increment_with_ref_to_optional, increment_with_ref_to_result,
      increment_with_optional_with_break,
      increment_with_optional_with_break_with_lifetime,
      increment_with_optional_with_continue,
      increment_with_optional_with_continue_with_lifetime,
      increment_with_result_with_break,
      increment_with_result_with_break_with_lifetime,
      increment_with_result_with_continue,
      increment_with_result_with_continue_with_lifetime,
      increment_with_optional_by_ref,
      increment_with_optional_from_fn_result }

\* The nested loops of the *_with_lifetime methods with the macro called in
\* its one-argument form: the break; / continue; of rules 1.
BareNestedSites ==
    { Site(k, d, "nested", "var", "owned", <<"expr">>) :
        k \in {"Option", "Result"}, d \in {"break", "continue"} }

\* A return macro called with a second expression argument.
TwoExprSites ==
    { Site(k, "return", "none", "var", "owned", <<"expr", "expr">>) :
        k \in {"Option", "Result"} }

Sites == TesterMethods \cup BareNestedSites \cup TwoExprSites

Elems(kind) == IF kind = "Option" THEN Options ELSE Results

Lists(S) == UNION {[1..n -> S] : n \in 0..MaxLen}

\* The arguments a site can be called with.
Args(m) ==
    IF m.nest = "none"
    THEN {<<Shaped(v, m.ptype)>> : v \in Elems(m.kind)}
    ELSE Lists(Elems(m.kind))

InnerRanges(m) == IF m.nest \in {"labeled", "nested"} THEN 1..MaxInner ELSE {0}

\* The value of the $from expression at one evaluation.
EvalFrom(from, v) == IF from = "as_ref" THEN as_ref(v) ELSE v

\* Where control goes when the miss branch of a rule runs at a site: Rust's
\* return, break, break 'l, continue, continue 'l.  The call is in the
\* innermost loop of its site, and 'l labels the outer loop.
Target(miss, nest) ==
    CASE miss[1] = "return" -> "done"
      [] miss[1] = "break" /\ Len(miss) = 2 -> "done"
      [] miss[1] = "break" /\ Len(miss) = 1 ->
            IF nest \in {"labeled", "nested"} THEN "outer_tail" ELSE "done"
      [] miss[1] = "continue" /\ Len(miss) = 2 -> "outer_head"
      [] miss[1] = "continue" /\ Len(miss) = 1 ->
            IF nest \in {"labeled", "nested"} THEN "inner_head" ELSE "outer_head"

\* Where control goes after  self.value += value;  the last statement of the
\* body the macro is called in.
AfterAdd(nest) ==
    CASE nest = "none" -> "done"
      [] nest = "single" -> "outer_head"
      [] OTHER -> "inner_head"

----------------------------------------------------------------------------
(* The state machine *)

NoSite == Site("-", "-", "-", "-", "-", <<>>)

\* Tester::new()
Init ==
    /\ value = 0
    /\ pc = "idle"
    /\ method = NoSite
    /\ values = <<>>
    /\ innerN = 0
    /\ i = 0
    /\ j = 0
    /\ f = Unbound
    /\ result = "-"
    /\ value0 = 0
    /\ evals = 0
    /\ invs = 0
    /\ dflts = 0
    /\ log = <<>>
    /\ ncalls = 0
    /\ getterCalls = 0
    /\ getterInvs = 0

\* The rule that expands the macro call of the running method.
RuleOf(m) == Expand(MacroOf(m.kind, m.divert), m.args)

Ev(ev, n) == <<ev, i, j, n>>

\* A method whose body ends returns ().
Ret(next) == IF next = "done" THEN "unit" ELSE result

\* The sites that can be called on the Tester in its current state.
Callable == IF ncalls = 0 THEN Sites ELSE {m \in Sites : m.nest = "none"}

\* A method of the Tester is called; its macro call site has a rule.
\* The tests call a loop method on a fresh Tester only (one call per test)
\* and call the no-loop methods one after another on the same Tester; the
\* exploration does the same, which keeps self.value small.
Call(m, vs, n) ==
    /\ pc = "idle"
    /\ ncalls < MaxCalls
    /\ m \in Callable
    /\ RuleOf(m) # NoRule
    /\ method' = m
    /\ values' = vs
    /\ innerN' = n
    /\ i' = IF m.nest = "none" THEN 1 ELSE 0
    /\ j' = 0
    /\ f' = Unbound
    /\ result' = "-"
    /\ value0' = value
    /\ evals' = 0
    /\ invs' = 0
    /\ dflts' = 0
    /\ log' = <<>>
    /\ ncalls' = ncalls + 1
    /\ pc' = IF m.nest = "none" THEN "unwrap" ELSE "outer_head"
    /\ UNCHANGED <<value, getterCalls, getterInvs>>

\* A call site no rule of its macro accepts: the method does not compile and
\* never runs.
Reject(m, vs) ==
    /\ pc = "idle"
    /\ ncalls < MaxCalls
    /\ RuleOf(m) = NoRule
    /\ method' = m
    /\ values' = vs
    /\ pc' = "rejected"
    /\ result' = "-"
    /\ log' = <<>>
    /\ value0' = value
    /\ evals' = 0
    /\ invs' = 0
    /\ dflts' = 0
    /\ UNCHANGED <<value, innerN, i, j, f, ncalls, getterCalls, getterInvs>>

\* for value in values: the next element, or the end of the loop.
OuterHead ==
    /\ pc = "outer_head"
    /\ IF i < Len(values)
       THEN /\ i' = i + 1
            /\ j' = 0
            /\ pc' = IF method.nest = "single" THEN "unwrap" ELSE "outer_body"
            /\ log' = Append(log, <<"outer", i + 1, 0, 0>>)
            /\ UNCHANGED result
       ELSE /\ pc' = "done"
            /\ result' = "unit"
            /\ UNCHANGED <<i, j, log>>
    /\ UNCHANGED <<value, method, values, innerN, f, value0, evals, invs,
                   dflts, ncalls, getterCalls, getterInvs>>

\* self.value += 1;  the first statement of the labeled loop's body.
OuterBody ==
    /\ pc = "outer_body"
    /\ value' = value + 1
    /\ pc' = "inner_head"
    /\ log' = Append(log, Ev("inc", 1))
    /\ UNCHANGED <<method, values, innerN, i, j, f, result, value0, evals,
                   invs, dflts, ncalls, getterCalls, getterInvs>>

\* for _i in 0..innerN: the next iteration, or the end of the inner loop.
InnerHead ==
    /\ pc = "inner_head"
    /\ IF j < innerN
       THEN j' = j + 1 /\ pc' = "unwrap"
       ELSE j' = j /\ pc' = "outer_tail"
    /\ UNCHANGED <<value, method, values, innerN, i, f, result, value0, evals,
                   invs, dflts, log, ncalls, getterCalls, getterInvs>>

\* The end of the outer loop's body, after the inner loop.
OuterTail ==
    /\ pc = "outer_tail"
    /\ pc' = "outer_head"
    /\ log' = Append(log, Ev("tail", 0))
    /\ UNCHANGED <<value, method, values, innerN, i, j, f, result, value0,
                   evals, invs, dflts, ncalls, getterCalls, getterInvs>>

\* let value = <macro>!($from ..): the expansion
\*   if let PAT(f) = $from { f } else { return; | break ..; | continue ..; }
Unwrap ==
    /\ pc = "unwrap"
    /\ LET rule   == RuleOf(method)
           v      == EvalFrom(method.from, values[i])
           hit    == Matches(rule.pat, v)
           branch == IF hit THEN rule.hit ELSE rule.miss
           nfrom  == Uses(rule.scrut, "$from") + Uses(branch, "$from")
           next   == IF hit THEN "add" ELSE Target(rule.miss, method.nest)
       IN  /\ evals' = evals + nfrom
           /\ invs' = invs + 1
           /\ dflts' = dflts + Uses(branch, "$default")
           /\ getterCalls' = getterCalls + (IF method.from = "call" THEN nfrom ELSE 0)
           /\ getterInvs' = getterInvs + (IF method.from = "call" THEN 1 ELSE 0)
           /\ f' = IF hit THEN Bind(v) ELSE f
           /\ pc' = next
           /\ log' = Append(log, IF hit THEN Ev("bound", v.n) ELSE Ev("divert", 0))
           /\ result' = IF ~hit /\ Uses(rule.miss, "$default") > 0
                        THEN "default" ELSE Ret(next)
    /\ UNCHANGED <<value, method, values, innerN, i, j, value0, ncalls>>

\* self.value += value;
Add ==
    /\ pc = "add"
    /\ f.set
    /\ value' = AddAssign(value, f)
    /\ pc' = AfterAdd(method.nest)
    /\ result' = Ret(AfterAdd(method.nest))
    /\ log' = Append(log, Ev("add", f.n))
    /\ UNCHANGED <<method, values, innerN, i, j, f, value0, evals, invs,
                   dflts, ncalls, getterCalls, getterInvs>>

\* The method has returned to the test.
Return ==
    /\ pc = "done"
    /\ pc' = "idle"
    /\ UNCHANGED <<value, method, values, innerN, i, j, f, result, value0,
                   evals, invs, dflts, log, ncalls, getterCalls, getterInvs>>

Next ==
    \/ \E m \in Callable : \E vs \in Args(m) : \E n \in InnerRanges(m) : Call(m, vs, n)
    \/ \E m \in Callable : \E vs \in Args(m) : Reject(m, vs)
    \/ OuterHead
    \/ OuterBody
    \/ InnerHead
    \/ OuterTail
    \/ Unwrap
    \/ Add
    \/ Return

Spec == Init /\ [][Next]_vars

----------------------------------------------------------------------------
(* Vocabulary of the properties *)

IsHit(v) == v.tag \in {"Some", "Ok"}

RECURSIVE SumHits(_, _, _)
\* The sum of the payloads of the Some/Ok elements vs[lo..hi].
SumHits(vs, lo, hi) ==
    IF lo > hi THEN 0
    ELSE (IF IsHit(vs[lo]) THEN vs[lo].n ELSE 0) + SumHits(vs, lo + 1, hi)

\* The position of the first None/Err of vs, or Len(vs) + 1.
FirstMiss(vs) ==
    LET miss == {k \in 1..Len(vs) : ~IsHit(vs[k])}
    IN  IF miss = {} THEN Len(vs) + 1
        ELSE CHOOSE k \in miss : \A h \in miss : k <= h

RECURSIVE SumLog(_, _)
\* What the first k events of a log added to self.value.
SumLog(l, k) ==
    IF k = 0 THEN 0
    ELSE (IF l[k][1] \in {"add", "inc"} THEN l[k][4] ELSE 0) + SumLog(l, k - 1)

Count(ev) == Cardinality({k \in DOMAIN log : log[k][1] = ev})

CountAt(ev, p) == Cardinality({k \in DOMAIN log : log[k][1] = ev /\ log[k][2] = p})

Started == method # NoSite /\ pc # "rejected"

Finished == Started /\ pc \in {"done", "idle"}

Delta == value - value0

\* The control transfer the site is configured for, seen after the divert
\* logged at position k: what the next event is, or where control stands.
AfterDivertOK(k) ==
    LET e    == log[k]
        last == k = Len(log)
        nx   == log[k + 1]
    IN  CASE method.divert = "return" ->
                last /\ pc \in {"done", "idle"} /\ result = "unit"
          [] method.divert = "break" /\ method.nest \in {"single", "labeled"} ->
                last /\ pc \in {"done", "idle"}
          [] method.divert = "break" /\ method.nest = "nested" ->
                IF last THEN pc = "outer_tail"
                ELSE nx = <<"tail", e[2], e[3], 0>>
          [] method.divert = "continue" /\ method.nest \in {"single", "labeled"} ->
                IF last
                THEN pc = "outer_head" \/ (e[2] = Len(values) /\ pc \in {"done", "idle"})
                ELSE nx = <<"outer", e[2] + 1, 0, 0>>
          [] method.divert = "continue" /\ method.nest = "nested" ->
                IF last
                THEN \/ pc = "inner_head" /\ j = e[3]
                     \/ pc = "unwrap" /\ i = e[2] /\ j = e[3] + 1
                     \/ pc = "outer_tail" /\ e[3] = innerN
                ELSE IF e[3] < innerN
                     THEN nx[1] \in {"bound", "divert"} /\ nx[2] = e[2] /\ nx[3] = e[3] + 1
                     ELSE nx = <<"tail", e[2], e[3], 0>>
          [] OTHER -> FALSE

\* Every macro invocation of the running call did what its input asks for:
\* a Some/Ok input was bound to its payload and the statement after the
\* macro ran with it; a None/Err input diverted, nothing after the macro ran
\* for it, and self.value is what the executed statements added.
StepsOK ==
    /\ \A k \in DOMAIN log :
         LET e == log[k]
             last == k = Len(log)
         IN  /\ e[1] = "bound" =>
                  /\ IsHit(values[e[2]])
                  /\ e[4] = values[e[2]].n
                  /\ last => (pc = "add" /\ f.set /\ f.n = e[4])
                  /\ ~last => log[k + 1] = <<"add", e[2], e[3], e[4]>>
             /\ e[1] = "divert" =>
                  /\ ~IsHit(values[e[2]])
                  /\ AfterDivertOK(k)
             /\ e[1] = "add" => (k > 1 /\ log[k - 1][1] = "bound")
    /\ Delta = SumLog(log, Len(log))
    /\ Count("bound") + Count("divert") = invs

----------------------------------------------------------------------------
(* C1 *)

\* C1: for some_or_return!, some_or_break! and some_or_continue!, every
\* Some(x) input evaluates to x without any return/break/continue and the
\* statement after the macro runs with that x; every None input makes the
\* configured control transfer and no statement after the macro in that scope
\* runs, so the invocation leaves the running total unchanged.
C1_SomeYieldsNoneDiverts ==
    (Started /\ method.kind = "Option") => StepsOK

\* [None, Some(1)] through some_or_continue!: one divert, then one payload
\* bound and added.
C1_Witness ==
    /\ method = increment_with_optional_with_continue
    /\ values = <<None, Some(1)>>
    /\ pc = "done"
    /\ Count("divert") = 1
    /\ Count("add") = 1
    /\ Delta = 1

----------------------------------------------------------------------------
(* C2 *)

\* C2: for ok_or_return!, ok_or_break! and ok_or_continue!, every Ok(x)
\* input evaluates to x without diverting; every Err(e) input diverts,
\* whatever its payload e: no Err element is ever bound or added, and the
\* control transfer is the configured one.
C2_OkYieldsErrDiverts ==
    (Started /\ method.kind = "Result") =>
        /\ StepsOK
        /\ \A p \in 1..Len(values) :
             values[p].tag = "Err" =>
                 CountAt("bound", p) = 0 /\ CountAt("add", p) = 0

\* [Err(e1), Ok(2)] through ok_or_continue!.
C2_Witness ==
    /\ method = increment_with_result_with_continue
    /\ values = <<Err("e1"), Ok(2)>>
    /\ pc = "done"
    /\ Count("divert") = 1
    /\ Count("add") = 1
    /\ Delta = 2

----------------------------------------------------------------------------
(* C3 *)

----------------------------------------------------------------------------
(* C4 *)

\* C4: a single loop with the one-argument some_or_break! / ok_or_break!
\* ends with the total raised by the sum of the payloads before the first
\* None/Err, and nothing at or after the first None/Err is bound or added
\* (nor is any element after it visited).  [None, Some(1)] adds 0.
C4_BreakSumsPrefix ==
    (Finished /\ method.divert = "break" /\ method.nest = "single") =>
        LET p == FirstMiss(values)
        IN  /\ Delta = SumHits(values, 1, p - 1)
            /\ \A k \in DOMAIN log :
                 /\ log[k][2] <= p
                 /\ log[k][1] \in {"bound", "add"} => log[k][2] < p

C4_Witness ==
    /\ method = increment_with_optional_with_break
    /\ values = <<None, Some(1)>>
    /\ pc = "done"
    /\ CountAt("outer", 2) = 0
    /\ Delta = 0

----------------------------------------------------------------------------
(* C5 *)

\* C5: a single loop with the one-argument some_or_continue! /
\* ok_or_continue! visits every element once and ends with the total raised
\* by the sum of the payloads of all Some/Ok elements.  [None, Some(1)]
\* adds 1.
C5_ContinueSumsAll ==
    (Finished /\ method.divert = "continue" /\ method.nest = "single") =>
        /\ Delta = SumHits(values, 1, Len(values))
        /\ \A p \in 1..Len(values) :
             /\ CountAt("outer", p) = 1
             /\ CountAt("bound", p) + CountAt("divert", p) = 1
             /\ CountAt("add", p) = (IF IsHit(values[p]) THEN 1 ELSE 0)

C5_Witness ==
    /\ method = increment_with_result_with_continue
    /\ values = <<Err("e2"), Ok(1)>>
    /\ pc = "done"
    /\ CountAt("outer", 2) = 1
    /\ Delta = 1

----------------------------------------------------------------------------
(* C6 *)

\* C6: in the nested loops with some_or_continue!(value, 'l) /
\* ok_or_continue!(value, 'l), every element starts one outer iteration
\* (+1); a None/Err element diverts at the first inner iteration, runs no
\* further inner iteration and never reaches the end of the outer body; a
\* Some/Ok element is added once per inner iteration.  The total rises by
\* the number of elements plus the payloads of the Some/Ok elements (inner
\* range 0..1, as in the Tester); [None, Some(1)] adds 3.
C6_LabeledContinue ==
    (Finished /\ method.divert = "continue" /\ method.nest = "labeled") =>
        /\ Delta = Len(values) + innerN * SumHits(values, 1, Len(values))
        /\ innerN = 1 => Delta = Len(values) + SumHits(values, 1, Len(values))
        /\ \A p \in 1..Len(values) :
             /\ CountAt("outer", p) = 1
             /\ CountAt("inc", p) = 1
             /\ IF IsHit(values[p])
                THEN CountAt("add", p) = innerN /\ CountAt("tail", p) = 1
                ELSE /\ CountAt("divert", p) = 1
                     /\ CountAt("add", p) = 0
                     /\ CountAt("tail", p) = 0

C6_Witness ==
    /\ method = increment_with_optional_with_continue_with_lifetime
    /\ values = <<None, Some(1)>>
    /\ innerN = 1
    /\ pc = "done"
    /\ Delta = 3

----------------------------------------------------------------------------
(* C7 *)

\* C7: in the nested loops with some_or_break!(value, 'l) /
\* ok_or_break!(value, 'l), the first None/Err ends the outer loop: the
\* divert is the last thing the method does.  With the first None/Err at
\* position p (1-based) the total rises by p plus the payloads before it
\* (inner range 0..1); with none, by the length plus all payloads.
\* [None, Some(1)] adds 1.
C7_LabeledBreak ==
    (Finished /\ method.divert = "break" /\ method.nest = "labeled") =>
        LET p == FirstMiss(values)
            n == IF p <= Len(values) THEN p ELSE Len(values)
        IN  /\ Delta = n + innerN * SumHits(values, 1, p - 1)
            /\ innerN = 1 => Delta = n + SumHits(values, 1, p - 1)
            /\ \A k \in DOMAIN log : log[k][2] <= p
            /\ p <= Len(values) => log[Len(log)] = <<"divert", p, 1, 0>>

C7_Witness ==
    /\ method = increment_with_optional_with_break_with_lifetime
    /\ values = <<None, Some(1)>>
    /\ innerN = 1
    /\ pc = "done"
    /\ Delta = 1

----------------------------------------------------------------------------
(* C8 *)

\* C8: the one-argument some_or_break! / ok_or_break! in an inner loop
\* exits the inner loop only: after the divert control is at the end of the
\* outer body, and the outer loop runs one iteration per element, each
\* reaching the end of its body, however many None/Err there are.
C8_BareBreakExitsInnerOnly ==
    (Started /\ method.divert = "break" /\ method.nest = "nested") =>
        /\ \A k \in DOMAIN log : log[k][1] = "divert" => AfterDivertOK(k)
        /\ Finished =>
             /\ Delta = Len(values) + innerN * SumHits(values, 1, Len(values))
             /\ \A p \in 1..Len(values) :
                  /\ CountAt("outer", p) = 1
                  /\ CountAt("inc", p) = 1
                  /\ CountAt("tail", p) = 1
                  /\ CountAt("divert", p) = (IF IsHit(values[p]) THEN 0 ELSE 1)

C8_Witness ==
    /\ method.divert = "break"
    /\ method.nest = "nested"
    /\ method.kind = "Option"
    /\ values = <<None, None>>
    /\ pc = "done"
    /\ Count("divert") = 2
    /\ Count("tail") = 2
    /\ Delta = 2

----------------------------------------------------------------------------
(* C9 *)

\* C9: some_or_return! / ok_or_return! on Some(x)/Ok(x), on &Some(x)/&Ok(x)
\* and on Some(&x)/Ok(&x) (also through as_ref()) add the same x to the
\* total; on the None/Err of each shape the routine returns with the total
\* unchanged.
C9_ReferenceTransparency ==
    (Finished /\ method.nest = "none") =>
        /\ Delta = (IF IsHit(values[1]) THEN values[1].n ELSE 0)
        /\ IsHit(values[1]) =>
             /\ f.n = values[1].n
             /\ f.ref = (method.ptype # "owned" \/ method.from = "as_ref")
        /\ ~IsHit(values[1]) => ~f.set

C9_Witness ==
    /\ method = increment_with_ref_to_optional
    /\ values[1].tag = "Some"
    /\ values[1].oref
    /\ values[1].n = 2
    /\ pc = "done"
    /\ f.ref
    /\ Delta = 2

----------------------------------------------------------------------------
(* C10 *)

\* C10: every macro invocation evaluates its $from expression exactly once,
\* on the Some/Ok path and on the None/Err path alike: the evaluations of a
\* call equal its invocations, and value_getter has been called once per
\* invocation of some_or_return!(value_getter()).
C10_FromEvaluatedOnce ==
    /\ evals = invs
    /\ getterCalls = getterInvs
    /\ Started => invs = Count("bound") + Count("divert")

\* Three successive calls with a getter, the second returning None.
C10_Witness ==
    /\ method = increment_with_optional_from_fn_result
    /\ ncalls = 3
    /\ getterInvs = 3
    /\ getterCalls = 3
    /\ pc = "idle"
    /\ value = 2
    /\ values = <<Some(1)>>

====
